---- MODULE Spec2Model ----
(***************************************************************************)
(* vertinfo: a JSON-RPC 2.0 server (Deno.serve) with four read-only        *)
(* methods over Deno KV and a per-host rate limiter.                       *)
(*                                                                         *)
(* Modelled from src/vertinfo.ts; the two files of the split build         *)
(* (src/unnamed/part_000: rateLimit with a 200 ms window, and              *)
(* src/lib/methods/getConfirmations.ts) are the "lib" build, which uses    *)
(* them in place of the monolith's rateLimit and getConfirmations.         *)
(*                                                                         *)
(* Data.  A JavaScript string is a sequence of UTF-16 code units, a body   *)
(* on the wire is a sequence of bytes; both are sequences of numbers.  A   *)
(* JavaScript value is a record [t |-> type, v |-> payload]; an object's   *)
(* payload is a function from its keys to values, an array's a sequence.   *)
(* A JSON text is modelled by its tree, with every string of the tree      *)
(* held as the bytes that are on the wire: the structural characters of    *)
(* JSON are ASCII, so only the strings depend on the character encoding.   *)
(* Numbers are within the range where JSON.parse and JSON.stringify are    *)
(* exact.  Time is Date.now() in milliseconds, counted from a positive     *)
(* origin (a host clock is past 1970-01-01T00:00:00.000Z).                 *)
(***************************************************************************)
EXTENDS Integers, Sequences, FiniteSets, TLC

(***************************************************************************)
(* String literals of the source, as code units.                           *)
(***************************************************************************)
\* "2.0", src/vertinfo.ts:21
lit_2_0 == <<50, 46, 48>>
\* "get_econConf"
lit_get_econConf == <<103, 101, 116, 95, 101, 99, 111, 110, 67, 111, 110, 102>>
\* "get_activeChains"
lit_get_activeChains ==
  <<103, 101, 116, 95, 97, 99, 116, 105, 118, 101, 67, 104, 97, 105, 110, 115>>
\* "get_confirmations"
lit_get_confirmations ==
  <<103, 101, 116, 95, 99, 111, 110, 102, 105, 114, 109, 97, 116, 105, 111, 110, 115>>
\* "get_burnStatus"
lit_get_burnStatus ==
  <<103, 101, 116, 95, 98, 117, 114, 110, 83, 116, 97, 116, 117, 115>>
\* "Parse error."
lit_ParseError == <<80, 97, 114, 115, 101, 32, 101, 114, 114, 111, 114, 46>>
\* "Invalid params."
lit_InvalidParams ==
  <<73, 110, 118, 97, 108, 105, 100, 32, 112, 97, 114, 97, 109, 115, 46>>
\* "Rate limited."
lit_RateLimited == <<82, 97, 116, 101, 32, 108, 105, 109, 105, 116, 101, 100, 46>>
\* "Method not found."
lit_MethodNotFound ==
  <<77, 101, 116, 104, 111, 100, 32, 110, 111, 116, 32, 102, 111, 117, 110, 100, 46>>
\* "0x", the prefix replacer puts before a bigint's digits
lit_0x == <<48, 120>>

(***************************************************************************)
(* JavaScript values.                                                      *)
(***************************************************************************)
JNull == [t |-> "null"]
JUndefined == [t |-> "undefined"]
JBool(b) == [t |-> "boolean", v |-> b]
JNum(n) == [t |-> "number", v |-> n]
JBigInt(n) == [t |-> "bigint", v |-> n]
JStr(s) == [t |-> "string", v |-> s]
JArr(s) == [t |-> "array", v |-> s]
JObj(f) == [t |-> "object", v |-> f]

\* obj[key], undefined when the object has no such key
Prop(obj, key) == IF key \in DOMAIN obj.v THEN obj.v[key] ELSE JUndefined

(***************************************************************************)
(* Character encoding.  A client puts a JSON document on the wire as       *)
(* UTF-8 and reads the response body as UTF-8.                             *)
(***************************************************************************)
\* the UTF-8 bytes of one code point of the Basic Multilingual Plane
Utf8OfCodePoint(c) ==
  IF c < 128 THEN <<c>>
  ELSE IF c < 2048 THEN <<192 + (c \div 64), 128 + (c % 64)>>
  ELSE <<224 + (c \div 4096), 128 + ((c \div 64) % 64), 128 + (c % 64)>>

\* a text of ASCII characters only is its own UTF-8
IsAscii(s) == \A i \in DOMAIN s : s[i] < 128

RECURSIVE Utf8Encode(_)
Utf8Encode(s) ==
  IF IsAscii(s) THEN s ELSE Utf8OfCodePoint(Head(s)) \o Utf8Encode(Tail(s))

\* the text of well-formed UTF-8 bytes
RECURSIVE Utf8Decode(_)
Utf8Decode(b) ==
  IF IsAscii(b) THEN b
  ELSE IF b[1] < 128 THEN <<b[1]>> \o Utf8Decode(Tail(b))
  ELSE IF b[1] < 224
    THEN <<(b[1] - 192) * 64 + (b[2] - 128)>> \o Utf8Decode(SubSeq(b, 3, Len(b)))
  ELSE <<(b[1] - 224) * 4096 + (b[2] - 128) * 64 + (b[3] - 128)>>
         \o Utf8Decode(SubSeq(b, 4, Len(b)))

\* a document with every string replaced by its UTF-8 bytes
RECURSIVE Utf8Doc(_)
Utf8Doc(x) ==
  CASE x.t = "string" -> JStr(Utf8Encode(x.v))
    [] x.t = "array" -> JArr([i \in DOMAIN x.v |-> Utf8Doc(x.v[i])])
    [] x.t = "object" -> JObj([k \in DOMAIN x.v |-> Utf8Doc(x.v[k])])
    [] OTHER -> x

\* a wire document read as UTF-8
RECURSIVE Utf8DecodeDoc(_)
Utf8DecodeDoc(x) ==
  CASE x.t = "string" -> JStr(Utf8Decode(x.v))
    [] x.t = "array" -> JArr([i \in DOMAIN x.v |-> Utf8DecodeDoc(x.v[i])])
    [] x.t = "object" -> JObj([k \in DOMAIN x.v |-> Utf8DecodeDoc(x.v[k])])
    [] OTHER -> x

\* for (const byte of bytes) body += String.fromCharCode(byte): every byte
\* becomes the code unit of the same number
fromCharCodes(bytes) == [i \in DOMAIN bytes |-> bytes[i]]

(***************************************************************************)
(* Request bodies.  NoBody is a request without a body (request.body is    *)
(* null); Malformed stands for bytes that are not a JSON text; any other   *)
(* body is the tree of a JSON text.                                        *)
(***************************************************************************)
NoBody == [kind |-> "none"]
Malformed == [kind |-> "malformed"]
JsonBody(doc) == [kind |-> "json", doc |-> Utf8Doc(doc)]

\* the accumulated body string, then JSON.parse of it: the tree with every
\* string decoded byte by byte
RECURSIVE bodyValue(_)
bodyValue(x) ==
  CASE x.t = "string" -> JStr(fromCharCodes(x.v))
    [] x.t = "array" -> JArr([i \in DOMAIN x.v |-> bodyValue(x.v[i])])
    [] x.t = "object" -> JObj([k \in DOMAIN x.v |-> bodyValue(x.v[k])])
    [] OTHER -> x

\* try { JSON.parse(body) } catch: the parsed value, or Thrown
Thrown == [t |-> "thrown"]
JSON_parse(body) == IF body.kind = "json" THEN bodyValue(body.doc) ELSE Thrown

(***************************************************************************)
(* zod schemas.  parseAsync(x).catch((_) => new Error()) gives the parsed   *)
(* output, ZodOk(data), or the Error, ZodError.                            *)
(***************************************************************************)
ZodError == [ok |-> FALSE]
ZodOk(data) == [ok |-> TRUE, data |-> data]

\* jsonRpcSchema.base: jsonrpc is the literal "2.0", id a string, a number
\* or null
jsonRpcSchema_base(x) ==
  IF /\ x.t = "object"
     /\ Prop(x, "jsonrpc").t = "string"
     /\ Prop(x, "jsonrpc").v = lit_2_0
     /\ Prop(x, "id").t \in {"string", "number", "null"}
  THEN ZodOk([jsonrpc |-> Prop(x, "jsonrpc"), id |-> Prop(x, "id")])
  ELSE ZodError

\* a variant: params not required to be an object
jsonRpcSchema_request_anyParams(x) ==
  IF /\ jsonRpcSchema_base(x).ok
     /\ Prop(x, "method").t = "string"
  THEN ZodOk([jsonrpc |-> Prop(x, "jsonrpc"), id |-> Prop(x, "id"),
              method |-> Prop(x, "method").v, params |-> Prop(x, "params")])
  ELSE ZodError

\* jsonRpcSchema.request: base and {method: string, params: object}, the
\* params object passed through with all its keys
jsonRpcSchema_request(x) ==
  IF /\ jsonRpcSchema_base(x).ok
     /\ Prop(x, "method").t = "string"
     /\ Prop(x, "params").t = "object"
  THEN ZodOk([jsonrpc |-> Prop(x, "jsonrpc"), id |-> Prop(x, "id"),
              method |-> Prop(x, "method").v, params |-> Prop(x, "params")])
  ELSE ZodError

\* apiSchema.chainIdOnlyParam
chainIdOnlyParam(params) ==
  IF params.t = "object" /\ Prop(params, "chainId").t = "number"
  THEN ZodOk([chainId |-> Prop(params, "chainId")])
  ELSE ZodError

\* apiSchema.getBurnStatusParam
getBurnStatusParam(params) ==
  IF params.t = "object" /\ Prop(params, "hash").t = "string"
  THEN ZodOk([hash |-> Prop(params, "hash")])
  ELSE ZodError

\* apiSchema.methods
apiSchema_methods(method) ==
  IF method \in {lit_get_econConf, lit_get_activeChains,
                 lit_get_confirmations, lit_get_burnStatus}
  THEN ZodOk(method)
  ELSE ZodError

(***************************************************************************)
(* Responses.  A response is its HTTP status and its body as the client    *)
(* receives it: the tree of the JSON text, UTF-8 on the wire.              *)
(***************************************************************************)
\* a variant: the digits above 9 in upper case
hexDigit_upper(d) == IF d < 10 THEN 48 + d ELSE 55 + d

\* one hexadecimal digit, lowercase, as a code unit
hexDigit(d) == IF d < 10 THEN 48 + d ELSE 87 + d

RECURSIVE hexDigits(_)
hexDigits(n) ==
  IF n < 16 THEN <<hexDigit(n)>> ELSE hexDigits(n \div 16) \o <<hexDigit(n % 16)>>

\* BigInt.prototype.toString(16)
toString16(n) == IF n < 0 THEN <<45>> \o hexDigits(-n) ELSE hexDigits(n)

replacer(key, value) ==
  IF value.t = "bigint" THEN JStr(lit_0x \o toString16(value.v)) ELSE value

\* JSON.stringify(value, replacer), as the tree of the text it writes: the
\* replacer is applied to every value of the tree, a property whose value is
\* undefined is left out and an undefined array element is written as null
RECURSIVE JSON_stringify_replacer(_, _)
JSON_stringify_replacer(key, value) ==
  LET y == replacer(key, value) IN
  CASE y.t = "array" ->
         JArr([i \in DOMAIN y.v |->
                 LET e == JSON_stringify_replacer("", y.v[i]) IN
                 IF e.t = "undefined" THEN JNull ELSE e])
    [] y.t = "object" ->
         JObj([k \in {j \in DOMAIN y.v : replacer(j, y.v[j]).t # "undefined"} |->
                 JSON_stringify_replacer(k, y.v[k])])
    [] OTHER -> y

\* JSON.stringify(value) of a value without bigints
RECURSIVE JSON_stringify(_)
JSON_stringify(value) ==
  CASE value.t = "array" ->
         JArr([i \in DOMAIN value.v |->
                 IF value.v[i].t = "undefined" THEN JNull
                 ELSE JSON_stringify(value.v[i])])
    [] value.t = "object" ->
         JObj([k \in {j \in DOMAIN value.v : value.v[j].t # "undefined"} |->
                 JSON_stringify(value.v[k])])
    [] OTHER -> value

\* id ?? null
orNull(id) == IF id.t \in {"undefined", "null"} THEN JNull ELSE id

\* new Response(text, {status})
Response(text, status) == [status |-> status, body |-> Utf8Doc(text)]

\* a variant: the error response with a null result beside the error
jsonRpcError_withResult(code, message, status, id) ==
  LET error == JObj([code |-> JNum(code), message |-> JStr(message)])
      response == JObj([jsonrpc |-> JStr(lit_2_0), error |-> error,
                        result |-> JNull, id |-> orNull(id)])
  IN Response(JSON_stringify(response), status)

jsonRpcError(code, message, status, id) ==
  LET error == JObj([code |-> JNum(code), message |-> JStr(message)])
      response == JObj([jsonrpc |-> JStr(lit_2_0), error |-> error, id |-> orNull(id)])
  IN Response(JSON_stringify(response), status)

jsonRpcResponse(result, id) ==
  LET response == JObj([jsonrpc |-> JStr(lit_2_0), result |-> result, id |-> orNull(id)])
  IN Response(JSON_stringify_replacer("", response), 200)

badParseError == jsonRpcError(-32700, lit_ParseError, 500, JUndefined)

invalidParamsError(id) == jsonRpcError(-32602, lit_InvalidParams, 500, id)

rateLimitError == jsonRpcError(-32005, lit_RateLimited, 429, JUndefined)

\* a variant: the code and the status of an invalid request
badMethodError_invalidRequest ==
  jsonRpcError(-32600, lit_MethodNotFound, 400, JUndefined)

badMethodError == jsonRpcError(-32601, lit_MethodNotFound, 404, JUndefined)

(***************************************************************************)
(* The store: Deno KV, read only.  A key is the sequence of its parts, a   *)
(* store a function from the keys it holds to their values.                *)
(***************************************************************************)
\* "econConf"
lit_econConf == <<101, 99, 111, 110, 67, 111, 110, 102>>
\* "chains"
lit_chains == <<99, 104, 97, 105, 110, 115>>
\* "confirmations"
lit_confirmations == <<99, 111, 110, 102, 105, 114, 109, 97, 116, 105, 111, 110, 115>>
\* "status"
lit_status == <<115, 116, 97, 116, 117, 115>>

\* a variant: undefined for a key without a value
kv_get_undefined(store, key) == IF key \in DOMAIN store THEN store[key] ELSE JUndefined

\* (await kv.get(key)).value: the value under the key, null when there is none
kv_get(store, key) == IF key \in DOMAIN store THEN store[key] ELSE JNull

(***************************************************************************)
(* The four methods.  Each gives the keys it reads (none when the params   *)
(* do not parse) and the response it returns; request is {id, params}.     *)
(***************************************************************************)
\* a variant: the key is read before the params are validated
getEconConf_readFirst(request, store) ==
  LET paramsParseResult == chainIdOnlyParam(request.params)
      key == <<JStr(lit_econConf), Prop(request.params, "chainId")>>
  IN [reads |-> <<key>>,
      response |-> IF ~paramsParseResult.ok THEN invalidParamsError(request.id)
                   ELSE jsonRpcResponse(kv_get(store, key), request.id)]

getEconConf(request, store) ==
  LET paramsParseResult == chainIdOnlyParam(request.params) IN
  IF ~paramsParseResult.ok
  THEN [reads |-> <<>>, response |-> invalidParamsError(request.id)]
  ELSE LET key == <<JStr(lit_econConf), paramsParseResult.data.chainId>> IN
       [reads |-> <<key>>,
        response |-> jsonRpcResponse(kv_get(store, key), request.id)]

\* a variant: the params validated as those of get_econConf
getActiveChains_validating(request, store) ==
  LET paramsParseResult == chainIdOnlyParam(request.params)
      key == <<JStr(lit_chains)>>
  IN IF ~paramsParseResult.ok
     THEN [reads |-> <<>>, response |-> invalidParamsError(request.id)]
     ELSE [reads |-> <<key>>,
           response |-> jsonRpcResponse(kv_get(store, key), request.id)]

getActiveChains(request, store) ==
  LET key == <<JStr(lit_chains)>> IN
  [reads |-> <<key>>, response |-> jsonRpcResponse(kv_get(store, key), request.id)]

getConfirmations(request, store) ==
  LET paramsParseResult == chainIdOnlyParam(request.params) IN
  IF ~paramsParseResult.ok
  THEN [reads |-> <<>>, response |-> invalidParamsError(request.id)]
  ELSE LET key == <<JStr(lit_confirmations), paramsParseResult.data.chainId>> IN
       [reads |-> <<key>>,
        response |-> jsonRpcResponse(kv_get(store, key), request.id)]

\* getConfirmations of the lib build
lib_getConfirmations(request, store) ==
  LET paramsParseResult == chainIdOnlyParam(request.params) IN
  IF ~paramsParseResult.ok
  THEN [reads |-> <<>>, response |-> invalidParamsError(request.id)]
  ELSE LET key == <<JStr(lit_confirmations), paramsParseResult.data.chainId>> IN
       [reads |-> <<key>>,
        response |-> jsonRpcResponse(kv_get(store, key), request.id)]

getBurnStatus(request, store) ==
  LET paramsParseResult == getBurnStatusParam(request.params) IN
  IF ~paramsParseResult.ok
  THEN [reads |-> <<>>, response |-> invalidParamsError(request.id)]
  ELSE LET key == <<JStr(lit_status), paramsParseResult.data.hash>> IN
       [reads |-> <<key>>,
        response |-> jsonRpcResponse(kv_get(store, key), request.id)]

(***************************************************************************)
(* The rate limiter.                                                       *)
(***************************************************************************)
\* the window of rateLimit in src/vertinfo.ts
RATE_WINDOW == 1000
\* the window of rateLimit in the lib build
LIB_RATE_WINDOW == 200

\* lastRequestTimeMap.get(hostname): undefined when the map has no entry
mapGet(map, hostname) == IF hostname \in DOMAIN map THEN JNum(map[hostname]) ELSE JUndefined

\* !lastRequestTime: undefined is falsy, and so is the number 0
falsy(x) == x.t = "undefined" \/ (x.t = "number" /\ x.v = 0)

\* a variant: <= for <, so that a request exactly one window later is rejected
rateLimit_offByOne(map, hostname, t) ==
  LET lastRequestTime == mapGet(map, hostname) IN
  IF falsy(lastRequestTime) THEN FALSE
  ELSE t - lastRequestTime.v <= RATE_WINDOW

\* rateLimit(info) of src/vertinfo.ts, with Date.now() = t
rateLimit(map, hostname, t) ==
  LET lastRequestTime == mapGet(map, hostname) IN
  IF falsy(lastRequestTime) THEN FALSE
  ELSE t - lastRequestTime.v < RATE_WINDOW

\* rateLimit(info) of the lib build
lib_rateLimit(map, hostname, t) ==
  LET lastRequestTime == mapGet(map, hostname) IN
  IF falsy(lastRequestTime) THEN FALSE
  ELSE t - lastRequestTime.v < LIB_RATE_WINDOW

\* a variant: one time for every host
mapSet_global(map, hostname, t) == [h \in DOMAIN map \cup {"10.0.0.1", "10.0.0.2"} |-> t]

\* lastRequestTimeMap.set(hostname, t)
mapSet(map, hostname, t) ==
  [h \in DOMAIN map \cup {hostname} |-> IF h = hostname THEN t ELSE map[h]]

(***************************************************************************)
(* What the clients send.                                                  *)
(***************************************************************************)
\* "get_nonexistent"
lit_get_nonexistent ==
  <<103, 101, 116, 95, 110, 111, 110, 101, 120, 105, 115, 116, 101, 110, 116>>
\* "1.0"
lit_1_0 == <<49, 46, 48>>
\* "0xabc"
lit_0xabc == <<48, 120, 97, 98, 99>>
\* "0xdef"
lit_0xdef == <<48, 120, 100, 101, 102>>
\* "confirmed"
lit_confirmed == <<99, 111, 110, 102, 105, 114, 109, 101, 100>>
\* "pending"
lit_pending == <<112, 101, 110, 100, 105, 110, 103>>
\* "a"
lit_a == <<97>>
\* "é", U+00E9: two bytes in UTF-8
lit_e_acute == <<233>>

Hosts == {"10.0.0.1", "10.0.0.2"}

Ids == {JNum(7), JNull, JStr(lit_a), JStr(lit_e_acute)}

KnownMethods ==
  {lit_get_econConf, lit_get_activeChains, lit_get_confirmations, lit_get_burnStatus}

Methods == KnownMethods \cup {lit_get_nonexistent}

ParamsChoices ==
  { JObj(<<>>),
    JObj([chainId |-> JNum(1)]),
    JObj([chainId |-> JNum(2)]),
    JObj([chainId |-> JStr(<<49>>)]),
    JObj([hash |-> JStr(lit_0xabc)]),
    JObj([hash |-> JStr(lit_0xdef)]),
    JObj([hash |-> JStr(lit_e_acute)]),
    JObj([hash |-> JNum(1)]),
    JObj([chainId |-> JNum(1), hash |-> JStr(lit_0xabc), verbose |-> JBool(TRUE)]) }

Envelope(id, method, params) ==
  JObj([jsonrpc |-> JStr(lit_2_0), id |-> id, method |-> JStr(method),
        params |-> params])

\* JSON documents that are not a JSON-RPC request
BadEnvelopes ==
  { JNum(5),
    JArr(<<Envelope(JNum(7), lit_get_activeChains, JObj(<<>>))>>),
    JObj([jsonrpc |-> JStr(lit_1_0), id |-> JNum(7),
          method |-> JStr(lit_get_activeChains), params |-> JObj(<<>>)]),
    JObj([jsonrpc |-> JNum(2), id |-> JNum(7),
          method |-> JStr(lit_get_activeChains), params |-> JObj(<<>>)]),
    JObj([id |-> JNum(7), method |-> JStr(lit_get_activeChains),
          params |-> JObj(<<>>)]),
    JObj([jsonrpc |-> JStr(lit_2_0), method |-> JStr(lit_get_activeChains),
          params |-> JObj(<<>>)]),
    JObj([jsonrpc |-> JStr(lit_2_0), id |-> JBool(TRUE),
          method |-> JStr(lit_get_activeChains), params |-> JObj(<<>>)]),
    JObj([jsonrpc |-> JStr(lit_2_0), id |-> JNum(7), params |-> JObj(<<>>)]),
    JObj([jsonrpc |-> JStr(lit_2_0), id |-> JNum(7), method |-> JNum(1),
          params |-> JObj(<<>>)]),
    JObj([jsonrpc |-> JStr(lit_2_0), id |-> JNum(7),
          method |-> JStr(lit_get_activeChains)]),
    JObj([jsonrpc |-> JStr(lit_2_0), id |-> JNum(7),
          method |-> JStr(lit_get_activeChains), params |-> JNull]),
    JObj([jsonrpc |-> JStr(lit_2_0), id |-> JNum(7),
          method |-> JStr(lit_get_activeChains),
          params |-> JArr(<<JNum(1)>>)]) }

\* every body a client may send
AllBodies ==
  {NoBody, Malformed}
    \cup {JsonBody(d) : d \in BadEnvelopes}
    \cup {JsonBody(Envelope(id, m, p)) : id \in Ids, m \in Methods, p \in ParamsChoices}

\* one body for each outcome that awaits differently: a parse error, an
\* unknown method, invalid params, and a read of the store
FewBodies ==
  { Malformed,
    JsonBody(Envelope(JNum(7), lit_get_nonexistent, JObj(<<>>))),
    JsonBody(Envelope(JNum(7), lit_get_econConf, JObj(<<>>))),
    JsonBody(Envelope(JNum(7), lit_get_burnStatus, JObj([hash |-> JStr(lit_0xabc)]))) }

\* the most requests of a flood, and of a concurrent workload
MaxFlood == 3
MaxConcurrent == 2

\* A workload is what the clients of a run do:
\*   "single"      one request, of any body;
\*   "flood"       up to MaxFlood requests without a body, each answered as
\*                 it arrives, at any of the delays;
\*   "concurrent"  up to MaxConcurrent requests in flight together, each of
\*                 one of a few bodies.
Workloads == {"single", "flood", "concurrent"}

EconConfValue ==
  JObj([gasLimitMultiplier |-> JArr(<<JBigInt(11), JBigInt(10)>>),
        gasPriceMultiplier |-> JArr(<<JBigInt(3), JBigInt(2)>>),
        baseFee |-> JBigInt(255)])

\* the stores a run may find: nothing stored, or values for some keys
EmptyStore == <<>>

PopulatedStore ==
  LET keys == { <<JStr(lit_econConf), JNum(1)>>, <<JStr(lit_chains)>>,
                <<JStr(lit_confirmations), JNum(1)>>,
                <<JStr(lit_status), JStr(lit_0xabc)>>,
                <<JStr(lit_status), JStr(lit_e_acute)>> }
  IN [k \in keys |->
        CASE k = <<JStr(lit_econConf), JNum(1)>> -> EconConfValue
          [] k = <<JStr(lit_chains)>> -> JArr(<<JNum(1), JNum(5)>>)
          [] k = <<JStr(lit_confirmations), JNum(1)>> -> JBigInt(12)
          [] k = <<JStr(lit_status), JStr(lit_0xabc)>> -> JStr(lit_confirmed)
          [] OTHER -> JStr(lit_pending)]

\* a store whose values nest integers of arbitrary precision among values
\* of the other types: 0, both sides of a new digit, a large one
DeepValue ==
  JObj([gasLimitMultiplier |-> JArr(<<JBigInt(0), JBigInt(15)>>),
        gasPriceMultiplier |-> JArr(<<JBigInt(16), JBigInt(4095)>>),
        baseFee |-> JBigInt(2147483647),
        history |-> JArr(<<JObj([fee |-> JBigInt(256), chain |-> JNum(10),
                                 note |-> JStr(lit_e_acute), live |-> JBool(TRUE),
                                 next |-> JNull,
                                 steps |-> JArr(<<JArr(<<JBigInt(171)>>)>>)])>>)])

DeepStore ==
  [PopulatedStore EXCEPT ![<<JStr(lit_econConf), JNum(1)>>] = DeepValue,
                         ![<<JStr(lit_confirmations), JNum(1)>>] = JBigInt(65536)]

Stores == {EmptyStore, PopulatedStore, DeepStore}

(***************************************************************************)
(* The server.                                                             *)
(***************************************************************************)
VARIABLES
  build,               \* "vertinfo": src/vertinfo.ts; "lib": the lib build
  workload,            \* what the clients of this run do
  kv,                  \* the store, populated before the server starts
  now,                 \* Date.now()
  lastRequestTimeMap,  \* hostname -> time of the last admitted request
  task                 \* one call of handler per request

vars == <<build, workload, kv, now, lastRequestTimeMap, task>>

Requests == 1..(IF MaxFlood > MaxConcurrent THEN MaxFlood ELSE MaxConcurrent)

NoResponse == [status |-> 0, body |-> JUndefined]

\* a request that has not arrived.  A task is where its call of handler
\* stands (pc), the request (host, body), the keys it has called kv.get
\* with (reads) and the response it has returned; at and seen keep the
\* Date.now() and the lastRequestTimeMap.get(hostname) of its rateLimit call.
Idle ==
  [pc |-> "idle", host |-> "", body |-> NoBody, at |-> 0, seen |-> JUndefined,
   reads |-> <<>>, response |-> NoResponse]

Init ==
  /\ build \in {"vertinfo", "lib"}
  /\ workload \in Workloads
  /\ kv \in (IF workload = "single" THEN Stores ELSE {PopulatedStore})
  /\ now = 1
  /\ lastRequestTimeMap = <<>>
  /\ task = [r \in Requests |-> Idle]

\* the requests and the bodies of this run's workload
Allowed ==
  CASE workload = "single" -> 1
    [] workload = "flood" -> MaxFlood
    [] workload = "concurrent" -> MaxConcurrent

Bodies ==
  CASE workload = "single" -> AllBodies
    [] workload = "flood" -> {NoBody}
    [] workload = "concurrent" -> FewBodies

\* the window of this build
Window == IF build = "lib" THEN LIB_RATE_WINDOW ELSE RATE_WINDOW

\* time that passes between two requests: just less than the window, the
\* window and, in a flood, a millisecond
Delays == IF workload = "flood" THEN {1, Window - 1, Window} ELSE {Window - 1, Window}

\* a variant: the time recorded for a rejected request too
recordRequest_always(map, hostname, t, isLimited) == mapSet(map, hostname, t)

\* lines 189-190: the map after a request of hostname at time t
recordRequest(map, hostname, t, isLimited) ==
  IF isLimited THEN map ELSE mapSet(map, hostname, t)

\* a variant: the time of a request is set only when the request is
\* answered, so that the check does not see a request still under way
limited_deferredSet(hostname, t) ==
  IF \E q \in DOMAIN task :
       task[q].pc \notin {"idle", "done"} /\ task[q].host = hostname
  THEN FALSE
  ELSE IF build = "lib" THEN lib_rateLimit(lastRequestTimeMap, hostname, t)
  ELSE rateLimit(lastRequestTimeMap, hostname, t)

\* rateLimit(info) of this build
limited(hostname, t) ==
  IF build = "lib" THEN lib_rateLimit(lastRequestTimeMap, hostname, t)
  ELSE rateLimit(lastRequestTimeMap, hostname, t)

\* return response
Return(r, response) ==
  task' = [task EXCEPT ![r].pc = "done", ![r].response = response]

\* a variant: the test for a body before the rate limit
earlyReturn_bodyFirst(isLimited, body) ==
  IF body = NoBody THEN badParseError
  ELSE IF isLimited THEN rateLimitError
  ELSE NoResponse

\* lines 189 and 192: the response the handler returns before it reads the
\* body, NoResponse when it goes on to read it
earlyReturn(isLimited, body) ==
  IF isLimited THEN rateLimitError
  ELSE IF body = NoBody THEN badParseError
  ELSE NoResponse

\* a variant: the time is set after the test for a body, so that a request
\* without a body leaves the map as it was
Arrive_setAfterBodyTest(r, hostname, body, d) ==
  /\ task[r].pc = "idle"
  /\ r <= Allowed
  /\ IF r = 1 THEN TRUE ELSE task[r - 1].pc # "idle"
  /\ LET t == now + d
         arrived == [task[r] EXCEPT !.host = hostname, !.body = body, !.at = t,
                       !.seen = mapGet(lastRequestTimeMap, hostname)]
         isLimited == limited(hostname, t)
         response == earlyReturn(isLimited, body)
     IN /\ now' = t
        /\ lastRequestTimeMap' =
             recordRequest(lastRequestTimeMap, hostname, t, response # NoResponse)
        /\ task' = [task EXCEPT ![r] =
                      IF response # NoResponse
                      THEN [arrived EXCEPT !.pc = "done", !.response = response]
                      ELSE [arrived EXCEPT !.pc = "body"]]
  /\ UNCHANGED <<build, workload, kv>>

\* handler, lines 189-192, run when the request arrives, d milliseconds after
\* the request before it: the rate limit, the new time of the host, the test
\* for a body.  The lines run without an await between them, and both
\* readings of Date.now() give the same millisecond t.
Arrive(r, hostname, body, d) ==
  /\ task[r].pc = "idle"
  /\ r <= Allowed
  /\ IF r = 1 THEN TRUE ELSE task[r - 1].pc # "idle"
  /\ LET t == now + d
         arrived == [task[r] EXCEPT !.host = hostname, !.body = body, !.at = t,
                       !.seen = mapGet(lastRequestTimeMap, hostname)]
         isLimited == limited(hostname, t)
     IN /\ now' = t
        /\ lastRequestTimeMap' =
             recordRequest(lastRequestTimeMap, hostname, t, isLimited)
        /\ task' = [task EXCEPT ![r] =
                      LET response == earlyReturn(isLimited, body) IN
                      IF response # NoResponse
                      THEN [arrived EXCEPT !.pc = "done", !.response = response]
                      ELSE [arrived EXCEPT !.pc = "body"]]
  /\ UNCHANGED <<build, workload, kv>>

\* lines 194-203: the body is read to its end, then JSON.parse(body)
ReadBody(r) ==
  /\ task[r].pc = "body"
  /\ IF JSON_parse(task[r].body) = Thrown
     THEN Return(r, badParseError)
     ELSE task' = [task EXCEPT ![r].pc = "request"]
  /\ UNCHANGED <<build, workload, kv, now, lastRequestTimeMap>>

\* requestParseResult of a task
requestParseResult(r) == jsonRpcSchema_request(JSON_parse(task[r].body))

\* lines 205-211: the request schema has parsed
RequestParsed(r) ==
  /\ task[r].pc = "request"
  /\ IF ~requestParseResult(r).ok
     THEN Return(r, badParseError)
     ELSE task' = [task EXCEPT ![r].pc = "method"]
  /\ UNCHANGED <<build, workload, kv, now, lastRequestTimeMap>>

\* the switch of lines 216-225: the method's function, called with {params, id}
dispatch(method, request, store) ==
  CASE method = lit_get_econConf -> getEconConf(request, store)
    [] method = lit_get_activeChains -> getActiveChains(request, store)
    [] method = lit_get_confirmations ->
         IF build = "lib" THEN lib_getConfirmations(request, store)
         ELSE getConfirmations(request, store)
    [] method = lit_get_burnStatus -> getBurnStatus(request, store)

\* what the method's function of a task reads and returns
called(r) ==
  LET request == requestParseResult(r).data IN
  dispatch(request.method, [id |-> request.id, params |-> request.params], kv)

\* a variant: the params are validated before the method is resolved
MethodParsed_paramsFirst(r) ==
  /\ task[r].pc = "method"
  /\ LET request == requestParseResult(r).data
         methodParseResult == apiSchema_methods(request.method)
     IN IF ~chainIdOnlyParam(request.params).ok /\ ~getBurnStatusParam(request.params).ok
        THEN Return(r, invalidParamsError(request.id))
        ELSE IF ~methodParseResult.ok
        THEN Return(r, badMethodError)
        ELSE IF methodParseResult.data = lit_get_activeChains
             THEN task' = [task EXCEPT ![r].pc = "kv", ![r].reads = called(r).reads]
             ELSE task' = [task EXCEPT ![r].pc = "params"]
  /\ UNCHANGED <<build, workload, kv, now, lastRequestTimeMap>>

\* lines 213-225: the method has parsed; a known method's function is called
\* and runs to its first await: the parse of the params, or kv.get
MethodParsed(r) ==
  /\ task[r].pc = "method"
  /\ LET methodParseResult == apiSchema_methods(requestParseResult(r).data.method) IN
     IF ~methodParseResult.ok
     THEN Return(r, badMethodError)
     ELSE IF methodParseResult.data = lit_get_activeChains
          THEN task' = [task EXCEPT ![r].pc = "kv", ![r].reads = called(r).reads]
          ELSE task' = [task EXCEPT ![r].pc = "params"]
  /\ UNCHANGED <<build, workload, kv, now, lastRequestTimeMap>>

\* the params have parsed: invalid params, or kv.get is called
ParamsParsed(r) ==
  /\ task[r].pc = "params"
  /\ IF called(r).reads = <<>>
     THEN Return(r, called(r).response)
     ELSE task' = [task EXCEPT ![r].pc = "kv", ![r].reads = called(r).reads]
  /\ UNCHANGED <<build, workload, kv, now, lastRequestTimeMap>>

\* a variant: a timeout that answers with an error while the read is pending
KvReturn_timeout(r) ==
  /\ task[r].pc = "kv"
  /\ \/ Return(r, called(r).response)
     \/ Return(r, jsonRpcError(-32603, lit_ParseError, 500, JUndefined))
  /\ UNCHANGED <<build, workload, kv, now, lastRequestTimeMap>>

\* a variant: the store answers its reads one at a time, in their order
KvReturn_inTurn(r) ==
  /\ task[r].pc = "kv"
  /\ \A q \in DOMAIN task : q < r => task[q].pc # "kv"
  /\ Return(r, called(r).response)
  /\ UNCHANGED <<build, workload, kv, now, lastRequestTimeMap>>

\* kv.get has returned: the response with the value
KvReturn(r) ==
  /\ task[r].pc = "kv"
  /\ Return(r, called(r).response)
  /\ UNCHANGED <<build, workload, kv, now, lastRequestTimeMap>>

Next ==
  \E r \in Requests :
    \/ \E hostname \in Hosts, body \in Bodies, d \in Delays :
         Arrive(r, hostname, body, d)
    \/ ReadBody(r)
    \/ RequestParsed(r)
    \/ MethodParsed(r)
    \/ ParamsParsed(r)
    \/ KvReturn(r)

Spec == Init /\ [][Next]_vars

(***************************************************************************)
(* What a client observes, in the terms of the interface: the document it  *)
(* sent, as UTF-8 text, and the response it received, read as UTF-8.       *)
(***************************************************************************)
Arrived(r) == task[r].pc # "idle"
Answered(r) == task[r].pc = "done"

\* x[key] of a value that may not be an object
Field(x, key) == IF x.t = "object" THEN Prop(x, key) ELSE JUndefined

\* the JSON document of the request, undefined when the body is none
Sent(r) ==
  IF task[r].body.kind = "json" THEN Utf8DecodeDoc(task[r].body.doc) ELSE JUndefined

\* the JSON document of the response
Received(r) == Utf8DecodeDoc(task[r].response.body)

HasError(r) == Field(Received(r), "error").t # "undefined"
HasResult(r) == Field(Received(r), "result").t # "undefined"

\* the response is the error of this code, with this HTTP status
IsError(r, code, status) ==
  /\ Answered(r)
  /\ task[r].response.status = status
  /\ Field(Field(Received(r), "error"), "code") = JNum(code)

RateLimited(r) == IsError(r, -32005, 429)
Admitted(r) == Arrived(r) /\ ~RateLimited(r)

\* the envelope of the interface: {jsonrpc: "2.0", id: string | number | null,
\* method: string, params: object}
IsEnvelope(doc) ==
  /\ doc.t = "object"
  /\ Field(doc, "jsonrpc").t = "string"
  /\ Field(doc, "jsonrpc").v = lit_2_0
  /\ Field(doc, "id").t \in {"string", "number", "null"}
  /\ Field(doc, "method").t = "string"
  /\ Field(doc, "params").t = "object"

SentMethod(r) == Field(Sent(r), "method").v
SentParams(r) == Field(Sent(r), "params")
SentId(r) == Field(Sent(r), "id")

\* the requests of the same host that were admitted before request r
AdmittedBefore(r) ==
  {q \in Requests : q < r /\ Admitted(q) /\ task[q].host = task[r].host}

\* the last of them
LastAdmittedBefore(r) ==
  CHOOSE q \in AdmittedBefore(r) : \A p \in AdmittedBefore(r) : p <= q

(***************************************************************************)
(* C1.  Rate-limit admission.  A request arriving at time now is admitted  *)
(* iff its host has no recorded time or now - lastTimestamp >= window; so  *)
(* a request of the same host less than one window after an admitted one   *)
(* is rejected with code -32005 and HTTP 429, and a request one window or  *)
(* more after the last admitted one is admitted.                           *)
(***************************************************************************)
C1_Admission ==
  \A r \in Requests :
    Arrived(r) =>
      /\ Admitted(r) <=>
           \/ task[r].seen.t = "undefined"
           \/ task[r].at - task[r].seen.v >= Window
      /\ \A q \in AdmittedBefore(r) :
           task[r].at - task[q].at < Window => IsError(r, -32005, 429)
      /\ AdmittedBefore(r) # {} =>
           (task[r].at - task[LastAdmittedBefore(r)].at >= Window => Admitted(r))
      /\ AdmittedBefore(r) = {} => Admitted(r)

\* a host is admitted, rejected less than a window later and admitted again
\* exactly one window after its first request
C1_Witness ==
  /\ Admitted(1) /\ RateLimited(2) /\ Admitted(3)
  /\ task[1].host = task[2].host /\ task[2].host = task[3].host
  /\ task[2].at - task[1].at = Window - 1
  /\ task[3].at - task[1].at = Window

(***************************************************************************)
(* C2.  The map entry of a host is set to the current time exactly when a  *)
(* request of that host is admitted, and a rejected request leaves the     *)
(* whole map unchanged; so a host that keeps sending faster than the       *)
(* window is rejected every time until a full window has passed since its  *)
(* last admitted request.                                                  *)
(***************************************************************************)
\* request r arrives in this step
Arrives(r) == ~Arrived(r) /\ Arrived(r)'

C2_StepOK ==
  /\ \A r \in Requests :
       Arrives(r) =>
         IF Admitted(r)'
         THEN lastRequestTimeMap' = mapSet(lastRequestTimeMap, task'[r].host, now')
         ELSE lastRequestTimeMap' = lastRequestTimeMap
  /\ (\A r \in Requests : ~Arrives(r)) => lastRequestTimeMap' = lastRequestTimeMap

C2_FloodRejected ==
  \A r \in Requests :
    (Arrived(r) /\ AdmittedBefore(r) # {}) =>
      LET last == LastAdmittedBefore(r) IN
      /\ task[r].seen = JNum(task[last].at)
      /\ task[r].at - task[last].at < Window => RateLimited(r)

C2_MapOnlyOnAdmission == [][C2_StepOK]_vars /\ []C2_FloodRejected

\* a rejected request between two admitted ones, the third less than a window
\* after the rejected one
C2_Witness ==
  /\ Admitted(1) /\ RateLimited(2) /\ Admitted(3)
  /\ task[1].host = task[2].host /\ task[2].host = task[3].host
  /\ task[3].at - task[2].at < Window
  /\ lastRequestTimeMap[task[3].host] = task[3].at

(***************************************************************************)
(* The methods of the interface: the params each requires, the key each    *)
(* reads, and a stored value as a response carries it.                     *)
(***************************************************************************)
ValidParams(method, params) ==
  CASE method \in {lit_get_econConf, lit_get_confirmations} ->
         Field(params, "chainId").t = "number"
    [] method = lit_get_burnStatus -> Field(params, "hash").t = "string"
    [] OTHER -> TRUE

KeyOf(method, params) ==
  CASE method = lit_get_econConf -> <<JStr(lit_econConf), Field(params, "chainId")>>
    [] method = lit_get_activeChains -> <<JStr(lit_chains)>>
    [] method = lit_get_confirmations ->
         <<JStr(lit_confirmations), Field(params, "chainId")>>
    [] method = lit_get_burnStatus -> <<JStr(lit_status), Field(params, "hash")>>

\* a stored value in a response: every integer of arbitrary precision as its
\* 0x-prefixed hexadecimal string
RECURSIVE Rendered(_)
Rendered(x) ==
  CASE x.t = "bigint" -> JStr(lit_0x \o toString16(x.v))
    [] x.t = "array" -> JArr([i \in DOMAIN x.v |-> Rendered(x.v[i])])
    [] x.t = "object" -> JObj([k \in DOMAIN x.v |-> Rendered(x.v[k])])
    [] OTHER -> x

\* the value the store holds under a key, null when it holds none
Stored(key) == IF key \in DOMAIN kv THEN Rendered(kv[key]) ELSE JNull

\* an admitted request with a well-formed envelope
WellFormed(r) == Admitted(r) /\ IsEnvelope(Sent(r))

\* a well-formed request of a known method with the params the method requires
Valid(r) ==
  /\ WellFormed(r)
  /\ SentMethod(r) \in KnownMethods
  /\ ValidParams(SentMethod(r), SentParams(r))

(***************************************************************************)
(* C3.  Every response carries the id of its request whenever the          *)
(* request's envelope parsed (success, invalid params and method not       *)
(* found alike), and id null only when the request never reached a         *)
(* parseable id (parse error, rate limited).                               *)
(***************************************************************************)
C3_IdOfRequest ==
  \A r \in Requests :
    Answered(r) =>
      Field(Received(r), "id") = (IF WellFormed(r) THEN SentId(r) ELSE JNull)

(***************************************************************************)
(* C4.  An admitted request whose body is missing, is not well-formed      *)
(* JSON or does not match the envelope gets the one parse error: code      *)
(* -32700, id null, HTTP 500; no method is dispatched, no key is read.     *)
(***************************************************************************)
C4_ParseError ==
  \A r \in Requests :
    (Admitted(r) /\ ~IsEnvelope(Sent(r))) =>
      /\ task[r].pc \in {"body", "request", "done"}
      /\ task[r].reads = <<>>
      /\ Answered(r) =>
           /\ IsError(r, -32700, 500)
           /\ Field(Received(r), "id") = JNull
           /\ ~HasResult(r)
           /\ task[r].response = badParseError

\* a JSON document that is not an envelope has been answered
C4_Witness ==
  \E r \in Requests :
    /\ Answered(r) /\ Admitted(r)
    /\ task[r].body.kind = "json"
    /\ Sent(r).t = "object"
    /\ Field(Sent(r), "params").t = "array"
    /\ IsError(r, -32700, 500)

(***************************************************************************)
(* C5.  An admitted well-formed request of get_econConf or                 *)
(* get_confirmations whose params.chainId is missing or not a number, or   *)
(* of get_burnStatus whose params.hash is missing or not a string, gets    *)
(* the invalid-params error: code -32602, HTTP 500, the id of the          *)
(* request; no key is read.                                                *)
(***************************************************************************)
C5_InvalidParams ==
  \A r \in Requests :
    ( /\ WellFormed(r)
      /\ SentMethod(r) \in KnownMethods
      /\ ~ValidParams(SentMethod(r), SentParams(r)) ) =>
      /\ task[r].reads = <<>>
      /\ task[r].pc # "kv"
      /\ Answered(r) =>
           /\ IsError(r, -32602, 500)
           /\ Field(Received(r), "id") = SentId(r)

(***************************************************************************)
(* C6.  An admitted request with a valid envelope and a method that is     *)
(* none of the four gets the method-not-found error: code -32601, HTTP     *)
(* 404.                                                                    *)
(***************************************************************************)
C6_MethodNotFound ==
  \A r \in Requests :
    (WellFormed(r) /\ SentMethod(r) \notin KnownMethods) =>
      /\ task[r].pc \in {"body", "request", "method", "done"}
      /\ Answered(r) => IsError(r, -32601, 404) /\ ~HasResult(r)

C6_Witness ==
  \E r \in Requests :
    /\ WellFormed(r)
    /\ SentMethod(r) = lit_get_nonexistent
    /\ IsError(r, -32601, 404)

(***************************************************************************)
(* C7.  An admitted well-formed request of get_activeChains never gets     *)
(* the invalid-params error, whatever its params hold: the params are      *)
(* ignored and the response is the success with the value under            *)
(* ("chains").                                                             *)
(***************************************************************************)
C7_ActiveChains ==
  \A r \in Requests :
    (WellFormed(r) /\ SentMethod(r) = lit_get_activeChains) =>
      /\ task[r].pc # "params"
      /\ Answered(r) =>
           /\ ~IsError(r, -32602, 500)
           /\ ~HasError(r)
           /\ task[r].response.status = 200
           /\ Field(Received(r), "result") = Stored(<<JStr(lit_chains)>>)
           /\ task[r].reads = <<(<<JStr(lit_chains)>>)>>

\* get_activeChains answered with the chains though its params hold a
\* chainId that is no number
C7_Witness ==
  \E r \in Requests :
    /\ WellFormed(r) /\ Answered(r)
    /\ SentMethod(r) = lit_get_activeChains
    /\ Field(SentParams(r), "chainId").t = "string"
    /\ Field(Received(r), "result").t = "array"

(***************************************************************************)
(* C8.  Absence.  An admitted valid request of any of the four methods     *)
(* whose key the store holds no value for gets a success: result null,     *)
(* HTTP 200, no error.                                                     *)
(***************************************************************************)
C8_Absence ==
  \A r \in Requests :
    (Valid(r) /\ Answered(r)) =>
      /\ Len(task[r].reads) = 1
      /\ task[r].reads[1] \notin DOMAIN kv =>
           /\ task[r].response.status = 200
           /\ Field(Received(r), "result") = JNull
           /\ ~HasError(r)

\* a request of get_econConf answered null for a chain the store does not hold
C8_Witness ==
  \E r \in Requests :
    /\ Valid(r) /\ Answered(r)
    /\ SentMethod(r) = lit_get_econConf
    /\ kv = PopulatedStore
    /\ task[r].reads[1] \notin DOMAIN kv
    /\ Field(Received(r), "result") = JNull

(***************************************************************************)
(* C9.  Every admitted valid request performs exactly one store read, of   *)
(* the key of its method: ("econConf", chainId), ("chains"),               *)
(* ("confirmations", chainId), ("status", hash); the result of the         *)
(* success is the value stored under that key, HTTP 200.  No read is       *)
(* retried.                                                                *)
(***************************************************************************)
C9_OneReadOfTheKey ==
  \A r \in Requests :
    /\ Len(task[r].reads) <= 1
    /\ (Valid(r) /\ Answered(r)) =>
         LET key == KeyOf(SentMethod(r), SentParams(r)) IN
         /\ task[r].reads = <<key>>
         /\ task[r].response.status = 200
         /\ Field(Received(r), "result") = Stored(key)

(***************************************************************************)
(* C10.  Every response holds exactly one of result and error: a success   *)
(* (HTTP 200) result and no error, an error response error {code,          *)
(* message} and no result; on every path, a null store value included.     *)
(***************************************************************************)
C10_ResultXorError ==
  \A r \in Requests :
    Answered(r) =>
      /\ HasResult(r) # HasError(r)
      /\ HasResult(r) <=> task[r].response.status = 200
      /\ HasError(r) =>
           LET error == Field(Received(r), "error") IN
           /\ error.t = "object"
           /\ DOMAIN error.v = {"code", "message"}
           /\ error.v["code"].t = "number"
           /\ error.v["message"].t = "string"

\* a success whose result is the null of an absent key
C10_Witness ==
  \E r \in Requests :
    /\ Answered(r)
    /\ task[r].response.status = 200
    /\ "result" \in DOMAIN Received(r).v
    /\ Received(r).v["result"] = JNull
    /\ "error" \notin DOMAIN Received(r).v

(***************************************************************************)
(* C11.  In a success the result is the stored value with every integer of *)
(* arbitrary precision, at every depth of arrays and objects, written as   *)
(* the string "0x" followed by the lowercase hexadecimal digits of its     *)
(* value (255 as "0xff"), and with every other value unchanged.            *)
(***************************************************************************)
\* the number a sequence of lowercase hexadecimal digits writes
RECURSIVE HexValue(_)
HexValue(digits) ==
  IF digits = <<>> THEN 0
  ELSE LET c == digits[Len(digits)]
       IN 16 * HexValue(SubSeq(digits, 1, Len(digits) - 1))
            + (IF c <= 57 THEN c - 48 ELSE c - 87)

\* text is "0x" and the lowercase hexadecimal digits of n, no leading zero
IsHexOf(text, n) ==
  /\ Len(text) >= 3
  /\ SubSeq(text, 1, 2) = <<48, 120>>
  /\ LET digits == SubSeq(text, 3, Len(text)) IN
     /\ \A i \in DOMAIN digits : digits[i] \in (48..57) \cup (97..102)
     /\ Len(digits) > 1 => digits[1] # 48
     /\ HexValue(digits) = n

\* y is the value x as a result carries it
RECURSIVE Renders(_, _)
Renders(x, y) ==
  CASE x.t = "bigint" -> y.t = "string" /\ IsHexOf(y.v, x.v)
    [] x.t = "array" ->
         /\ y.t = "array"
         /\ Len(y.v) = Len(x.v)
         /\ \A i \in DOMAIN x.v : Renders(x.v[i], y.v[i])
    [] x.t = "object" ->
         /\ y.t = "object"
         /\ DOMAIN y.v = DOMAIN x.v
         /\ \A k \in DOMAIN x.v : Renders(x.v[k], y.v[k])
    [] OTHER -> y = x

\* the value under the key a request has read, null when there is none
ValueRead(r) ==
  IF task[r].reads[1] \in DOMAIN kv THEN kv[task[r].reads[1]] ELSE JNull

C11_HexAtEveryDepth ==
  \A r \in Requests :
    (Answered(r) /\ task[r].response.status = 200) =>
      /\ Len(task[r].reads) = 1
      /\ Renders(ValueRead(r), Field(Received(r), "result"))

\* an EconConf answered with baseFee 255 as "0xff" and the numerator 11 of
\* gasLimitMultiplier as "0xb"
C11_Witness ==
  \E r \in Requests :
    /\ Answered(r) /\ kv = PopulatedStore
    /\ task[r].response.status = 200
    /\ ValueRead(r) = EconConfValue
    /\ Field(Field(Received(r), "result"), "baseFee") = JStr(<<48, 120, 102, 102>>)
    /\ Field(Field(Received(r), "result"), "gasLimitMultiplier").v[1]
         = JStr(<<48, 120, 98>>)

(***************************************************************************)
(* C12.  A request that arrives less than one window after the last        *)
(* admitted request of its host is answered at once, whatever its body     *)
(* (none, malformed, unknown method, bad params, valid): code -32005, HTTP *)
(* 429, id null; its body is never read or parsed, no method is resolved   *)
(* and no key is read.                                                     *)
(***************************************************************************)
\* the request arrived inside the window of its host
InsideWindow(r) ==
  /\ Arrived(r)
  /\ AdmittedBefore(r) # {}
  /\ task[r].at - task[LastAdmittedBefore(r)].at < Window

C12_RejectedBeforeBody ==
  \A r \in Requests :
    InsideWindow(r) =>
      /\ task[r].pc = "done"
      /\ task[r].response.status = 429
      /\ Field(Field(Received(r), "error"), "code") = JNum(-32005)
      /\ Field(Received(r), "id") = JNull
      /\ ~HasResult(r)
      /\ task[r].reads = <<>>

\* a valid request of get_burnStatus, with an id, rejected inside the window
C12_Witness ==
  \E r \in Requests :
    /\ InsideWindow(r)
    /\ IsEnvelope(Sent(r))
    /\ SentMethod(r) = lit_get_burnStatus
    /\ SentId(r) = JNum(7)
    /\ task[r].response.status = 429

(***************************************************************************)
(* C13.  The params are validated only after the method has resolved: an   *)
(* admitted request with a valid envelope, an unknown method and params    *)
(* that fail the schema of every method gets method-not-found (-32601),    *)
(* never invalid-params (-32602), and its params are never parsed; every   *)
(* invalid-params response answers a request of one of the four known      *)
(* methods.                                                                *)
(***************************************************************************)
\* params that hold neither a chainId that is a number nor a hash that is a
\* string
FailEverySchema(params) ==
  /\ ~ValidParams(lit_get_econConf, params)
  /\ ~ValidParams(lit_get_confirmations, params)
  /\ ~ValidParams(lit_get_burnStatus, params)

C13_ParamsAfterMethod ==
  \A r \in Requests :
    /\ (WellFormed(r) /\ SentMethod(r) \notin KnownMethods) =>
         /\ task[r].pc \notin {"params", "kv"}
         /\ Answered(r) =>
              /\ Field(Field(Received(r), "error"), "code") = JNum(-32601)
              /\ Field(Field(Received(r), "error"), "code") # JNum(-32602)
    /\ (Arrived(r) /\ task[r].pc \in {"params", "kv"}) =>
         (WellFormed(r) /\ SentMethod(r) \in KnownMethods)
    /\ (Answered(r) /\ Field(Field(Received(r), "error"), "code") = JNum(-32602)) =>
         (WellFormed(r) /\ SentMethod(r) \in KnownMethods)

\* an unknown method with params that fail every schema, answered -32601
C13_Witness ==
  \E r \in Requests :
    /\ WellFormed(r) /\ Answered(r)
    /\ SentMethod(r) \notin KnownMethods
    /\ FailEverySchema(SentParams(r))
    /\ Field(Field(Received(r), "error"), "code") = JNum(-32601)

(***************************************************************************)
(* C14.  The rate-limit check of a request and the recording of its time   *)
(* are one step that no step of another request comes between, under every *)
(* interleaving of concurrent requests: two requests of one host less than *)
(* one window apart are never both admitted, and the time of an admitted   *)
(* request is never lost: the map holds, for every host, the time of its   *)
(* last admitted request.                                                  *)
(***************************************************************************)
\* the admitted requests of a host
AdmittedOf(h) == {r \in Requests : Admitted(r) /\ task[r].host = h}

C14_AtomicCheckAndSet ==
  /\ \A q, r \in Requests :
       (q < r /\ Admitted(q) /\ Admitted(r) /\ task[q].host = task[r].host) =>
         task[r].at - task[q].at >= Window
  /\ \A h \in Hosts :
       IF AdmittedOf(h) = {}
       THEN h \notin DOMAIN lastRequestTimeMap
       ELSE /\ h \in DOMAIN lastRequestTimeMap
            /\ \E r \in AdmittedOf(h) :
                 /\ lastRequestTimeMap[h] = task[r].at
                 /\ \A q \in AdmittedOf(h) : task[q].at <= task[r].at

\* a request rejected while the admitted request of its host, less than a
\* window before it, waits for the store
C14_Witness ==
  /\ task[1].pc = "kv"
  /\ Arrived(2) /\ task[2].host = task[1].host
  /\ task[2].at - task[1].at < Window
  /\ RateLimited(2)
  /\ lastRequestTimeMap[task[1].host] = task[1].at

(***************************************************************************)
(* C15.  Requests do not block each other during the wait for the store:   *)
(* while a request waits for a read of the store that has not returned,    *)
(* every other request can take its next step, whichever it is (arrive,    *)
(* read its body, parse, read the store, respond), and so run its whole    *)
(* pipeline and get its response.                                          *)
(***************************************************************************)
\* the store never returns the read of request 1; every other step of every
\* request is as in Next
StallInit == Init /\ workload = "concurrent"

StallNext ==
  \E r \in Requests :
    \/ \E hostname \in Hosts, body \in Bodies, d \in Delays :
         Arrive(r, hostname, body, d)
    \/ ReadBody(r)
    \/ RequestParsed(r)
    \/ MethodParsed(r)
    \/ ParamsParsed(r)
    \/ (r # 1 /\ KvReturn(r))

\* a step of request r that waits for no one: the event loop runs the
\* continuation of every promise that has resolved
Continue(r) ==
  ReadBody(r) \/ RequestParsed(r) \/ MethodParsed(r) \/ ParamsParsed(r)

\* ENABLED <<Continue(r)>>_vars and ENABLED <<KvReturn(r)>>_vars
CanContinue(r) == task[r].pc \in {"body", "request", "method", "params"}
CanKvReturn(r) == task[r].pc = "kv"

\* weak fairness of Continue(r) and of KvReturn(r): WF_vars(Continue(r)) and
\* WF_vars(KvReturn(r)) with their ENABLED written out
FairContinue(r) == []<>(~CanContinue(r)) \/ []<><<Continue(r)>>_vars
FairKvReturn(r) == []<>(~CanKvReturn(r)) \/ []<><<KvReturn(r)>>_vars

SpecStall ==
  /\ StallInit
  /\ [][StallNext]_vars
  /\ \A r \in Requests : FairContinue(r)
  /\ \A r \in Requests : r # 1 => FairKvReturn(r)

\* the next step of request r can be taken
CanStep(r) ==
  CASE task[r].pc = "idle" ->
         \A hostname \in Hosts, body \in Bodies, d \in Delays :
           ENABLED Arrive(r, hostname, body, d)
    [] task[r].pc = "body" -> ENABLED ReadBody(r)
    [] task[r].pc = "request" -> ENABLED RequestParsed(r)
    [] task[r].pc = "method" -> ENABLED MethodParsed(r)
    [] task[r].pc = "params" -> ENABLED ParamsParsed(r)
    [] task[r].pc = "kv" -> ENABLED KvReturn(r)
    [] OTHER -> TRUE

\* while request 1 waits for the store, the next request can arrive and
\* every request that has arrived can take its next step
C15_CanStep ==
  \A r \in Requests :
    (r # 1 /\ task[1].pc = "kv" /\ r <= Allowed /\ Arrived(r - 1)) => CanStep(r)

\* and, its steps taken, it is answered while request 1 still waits
C15_NoBlocking ==
  /\ []C15_CanStep
  /\ \A r \in Requests :
       r # 1 => ((task[1].pc = "kv" /\ Arrived(r)) ~> (task[1].pc = "kv" /\ Answered(r)))

\* a request of the same host, one window later, has run its whole pipeline
\* and has its value while the request before it still waits for the store
C15_Witness ==
  /\ task[1].pc = "kv"
  /\ task[2].host = task[1].host
  /\ Answered(2)
  /\ task[2].response.status = 200
  /\ Len(task[2].reads) = 1
  /\ Field(Received(2), "result") = JStr(lit_confirmed)

(***************************************************************************)
(* C16.  Every request is answered exactly once.  A request that fails at  *)
(* the rate limit, the envelope, the method or the params gets its one     *)
(* error response without a wait for the store; a request that reaches the *)
(* store is answered only by the return of its read (no timeout answers    *)
(* while the read is pending), and then with its one success; an answer    *)
(* never changes; and every request that arrives is answered, provided     *)
(* every read of the store returns.                                        *)
(***************************************************************************)
\* every await of every request is resumed, every read of the store returns
SpecFair ==
  /\ Init
  /\ [][Next]_vars
  /\ \A r \in Requests : FairContinue(r)
  /\ \A r \in Requests : FairKvReturn(r)

\* a request has its response exactly when its handler has returned
C16_State ==
  \A r \in Requests :
    /\ Answered(r) <=> task[r].response # NoResponse
    /\ Answered(r) => task[r].response.status \in {200, 404, 429, 500}

C16_Step ==
  \A r \in Requests :
    /\ Answered(r) => task'[r] = task[r]
    /\ (task[r].pc = "kv" /\ task'[r] # task[r]) =>
         /\ task'[r].pc = "done"
         /\ task'[r].response.status = 200
         /\ task'[r].reads = task[r].reads
    /\ (~Answered(r) /\ task'[r].pc = "done" /\ task'[r].response.status # 200) =>
         /\ task[r].pc # "kv"
         /\ task'[r].reads = <<>>

C16_AnsweredOnce ==
  /\ []C16_State
  /\ [][C16_Step]_vars
  /\ \A r \in Requests : Arrived(r) ~> Answered(r)

\* two requests under way together, one answered with an error and no read,
\* the other with the value it has read
C16_Witness ==
  \E q, r \in Requests :
    /\ Answered(q) /\ Admitted(q) /\ HasError(q) /\ task[q].reads = <<>>
    /\ Answered(r) /\ task[r].response.status = 200 /\ Len(task[r].reads) = 1

(***************************************************************************)
(* C17.  An admitted request uses up the window of its host even when it   *)
(* fails: its time is in the map from its arrival, before its body is      *)
(* read, so a request of the same host less than one window after an       *)
(* admitted request that ends, or will end, in a parse error, method not   *)
(* found or invalid params is rejected as rate limited.                    *)
(***************************************************************************)
\* request q was admitted and has not succeeded: it is under way or has its
\* error response
Unsuccessful(q) == Admitted(q) /\ task[q].response.status # 200

C17_FailureUsesWindow ==
  \A q \in Requests :
    Unsuccessful(q) =>
      /\ task[q].host \in DOMAIN lastRequestTimeMap
      /\ lastRequestTimeMap[task[q].host] >= task[q].at
      /\ \A r \in Requests :
           ( /\ q < r /\ Arrived(r)
             /\ task[r].host = task[q].host
             /\ task[r].at - task[q].at < Window ) =>
             /\ IsError(r, -32005, 429)
             /\ task[r].seen = JNum(task[q].at)

\* a request answered invalid params, and the next request of its host, less
\* than a window later, rejected
C17_Witness ==
  /\ Admitted(1) /\ IsError(1, -32602, 500)
  /\ Arrived(2) /\ task[2].host = task[1].host
  /\ task[2].at - task[1].at < Window
  /\ RateLimited(2)

(***************************************************************************)
(* C18.  Rate limiting is per host: no step of a request of host A,        *)
(* admitted or rejected, changes the map entry of another host B or        *)
(* whether the next request of B, whenever it comes, is admitted.          *)
(***************************************************************************)
\* rateLimit(info) of this build for a request of hostname at time t, were
\* the map this one
WouldLimit(map, hostname, t) ==
  IF build = "lib" THEN lib_rateLimit(map, hostname, t)
  ELSE rateLimit(map, hostname, t)

C18_Step ==
  \A r \in Requests :
    task'[r] # task[r] =>
      \A B \in Hosts \ {task'[r].host} :
        /\ mapGet(lastRequestTimeMap', B) = mapGet(lastRequestTimeMap, B)
        /\ \A d \in {0, 1, Window - 1, Window} :
             WouldLimit(lastRequestTimeMap', B, now' + d)
               = WouldLimit(lastRequestTimeMap, B, now' + d)

C18_PerHost == [][C18_Step]_vars

\* each of two hosts admitted, the second less than a window after the first,
\* and then the first rejected: each entry is the time of its own host
C18_Witness ==
  /\ Admitted(1) /\ Admitted(2) /\ RateLimited(3)
  /\ task[1].host # task[2].host /\ task[3].host = task[1].host
  /\ task[2].at - task[1].at < Window
  /\ lastRequestTimeMap[task[1].host] = task[1].at
  /\ lastRequestTimeMap[task[2].host] = task[2].at

(***************************************************************************)
(* C19.  A request answered with an error (rate limited, parse error,      *)
(* method not found, invalid params) has read no key: a key is read only   *)
(* by a request that was admitted, whose envelope is valid, whose method   *)
(* is one of the four and whose params are those the method requires.      *)
(***************************************************************************)
C19_NoReadOnError ==
  \A r \in Requests :
    /\ (Answered(r) /\ HasError(r)) => task[r].reads = <<>>
    /\ (Answered(r) /\ task[r].response.status # 200) => task[r].reads = <<>>
    /\ (task[r].reads # <<>> \/ task[r].pc = "kv") => Valid(r)

\* a request of get_econConf without a chainId, answered invalid params with
\* no key read
C19_Witness ==
  \E r \in Requests :
    /\ WellFormed(r)
    /\ SentMethod(r) = lit_get_econConf
    /\ Field(SentParams(r), "chainId").t = "undefined"
    /\ IsError(r, -32602, 500)
    /\ task[r].reads = <<>>

====
